---- MODULE Spec2Model ----
(***************************************************************************)
(* Model of streamlit_app.py, the RA dashboard page.                       *)
(*                                                                         *)
(* The page is a Streamlit script: it runs top to bottom once when the     *)
(* page is opened and once more after every widget interaction.  The       *)
(* state is the table returned by get_ra_data(), the values of the two     *)
(* widgets (date range slider, county multiselect) and what the last run   *)
(* of the script put on the page: the warning, the filtered frame handed   *)
(* to the chart, the metric cards and the exception that stopped the run,  *)
(* if any.  Two history variables record what the first run rendered       *)
(* (baseline) and whether the user has touched a widget since (interacted).*)
(*                                                                         *)
(* Encoding of pandas values:                                              *)
(*   - a date is a day number 1..MaxDate, NaT is 0;                        *)
(*   - an amount is a natural number, NaN is -1;                           *)
(*   - a county is a string, the missing value (NaN) is "";                *)
(*   - a DataFrame is the sequence of its rows in positional order, each   *)
(*     row carrying its index label in the field idx.                      *)
(* st.line_chart, st.header and st.columns only render; they read the      *)
(* filtered frame but set none of the values modelled here.                *)
(***************************************************************************)
EXTENDS Integers, Sequences, FiniteSets, TLC

(* Bounds of the model. *)
MaxRows == 2
MaxDate == 2

NaT == 0
NaN == -1
NA == ""

CountyValues == {"A", "B", NA}
DateValues == 0..MaxDate
AmountValues == {NaN, 0, 100, 150}

VARIABLES ra_df, from_date, to_date, selected_counties,
          warning, filtered_ra_df, metrics, error, baseline, interacted

vars == <<ra_df, from_date, to_date, selected_counties,
          warning, filtered_ra_df, metrics, error, baseline, interacted>>

(***************************************************************************)
(* Tables get_ra_data() can return: any rows, in any order, with missing   *)
(* counties, dates and amounts; the index is the default RangeIndex.       *)
(***************************************************************************)
RawRows == [county : CountyValues, date : DateValues, amount : AmountValues]

WithIndex(rows) ==
    [i \in 1..Len(rows) |->
        [idx |-> i - 1, county |-> rows[i].county,
         date |-> rows[i].date, amount |-> rows[i].amount]]

Tables == UNION {[1..n -> RawRows] : n \in 0..MaxRows}

(* ----- pandas primitives ------------------------------------------------ *)

(* Elementwise <= on a datetime column: any comparison with NaT is False. *)
DateLE(a, b) == a # NaT /\ b # NaT /\ a <= b

(* Elementwise == on a datetime column: NaT equals nothing. *)
DateEQ(a, b) == a # NaT /\ b # NaT /\ a = b

(* Elementwise == on the county column: NaN equals nothing. *)
CountyEQ(a, b) == a # NA /\ b # NA /\ a = b

(* Series.isin(values): membership; unlike ==, a NaN matches a NaN. *)
IsinByEq(v, values) == \E i \in 1..Len(values) : CountyEQ(values[i], v)

Isin(v, values) == \E i \in 1..Len(values) : values[i] = v

(* Series.min() / Series.max() of the Date column: NaT is skipped, and the
   result is NaT when no date is left. *)
ValidDates(df) == {df[i].date : i \in 1..Len(df)} \ {NaT}

DateMin(df) ==
    IF ValidDates(df) = {} THEN NaT
    ELSE CHOOSE d \in ValidDates(df) : \A e \in ValidDates(df) : d <= e

DateMax(df) ==
    IF ValidDates(df) = {} THEN NaT
    ELSE CHOOSE d \in ValidDates(df) : \A e \in ValidDates(df) : e <= d

(* Series.unique(): the distinct values in order of first appearance, the
   missing value included. *)
RECURSIVE UniqueFrom(_, _, _)
UniqueFrom(df, i, acc) ==
    IF i > Len(df) THEN acc
    ELSE UniqueFrom(df, i + 1,
                    IF \E k \in 1..Len(acc) : acc[k] = df[i].county THEN acc
                    ELSE Append(acc, df[i].county))

Unique(df) == UniqueFrom(df, 1, <<>>)

(* ----- the filter (lines 142-146) --------------------------------------- *)

FilterEmptyIsAll(df, sel, f, t) ==
    SelectSeq(df, LAMBDA r : /\ (sel = <<>> \/ Isin(r.county, sel))
                             /\ DateLE(r.date, t)
                             /\ DateLE(f, r.date))

FilterStrict(df, sel, f, t) ==
    SelectSeq(df, LAMBDA r : /\ Isin(r.county, sel)
                             /\ DateLE(r.date, t) /\ r.date # t
                             /\ DateLE(f, r.date))

Filter(df, sel, f, t) ==
    SelectSeq(df, LAMBDA r : /\ Isin(r.county, sel)
                             /\ DateLE(r.date, t)
                             /\ DateLE(f, r.date))

(* ----- the lookups (lines 163-164, 176-177) ----------------------------- *)

RowsOn(df, d) == SelectSeq(df, LAMBDA r : DateEQ(r.date, d))

RowsOf(df, c) == SelectSeq(df, LAMBDA r : CountyEQ(r.county, c))

(* Series.iat[0]: the first value by position; IndexError on an empty
   series. *)
Iat0Last(s) ==
    IF Len(s) = 0 THEN [raised |-> "IndexError", val |-> NaN]
    ELSE [raised |-> "none", val |-> s[Len(s)].amount]

Iat0(s) ==
    IF Len(s) = 0 THEN [raised |-> "IndexError", val |-> NaN]
    ELSE [raised |-> "none", val |-> s[1].amount]

(* ----- arithmetic and formatting (lines 179-188) ----------------------- *)

(* math.isnan *)
IsNan(v) == v = NaN

(* last_ra / first_ra on numpy scalars: IEEE division, which never raises;
   x/0 is inf for x > 0, 0/0 is nan, and nan propagates.  A finite quotient
   is kept as the exact fraction num/den. *)
TrueDivideRaising(a, b) ==
    IF a = NaN \/ b = NaN THEN [raised |-> "none", kind |-> "nan", num |-> 0, den |-> 1]
    ELSE IF b = 0 THEN [raised |-> "ZeroDivisionError", kind |-> "nan", num |-> 0, den |-> 1]
    ELSE [raised |-> "none", kind |-> "num", num |-> a, den |-> b]

TrueDivide(a, b) ==
    IF a = NaN \/ b = NaN THEN [raised |-> "none", kind |-> "nan", num |-> 0, den |-> 1]
    ELSE IF b = 0 THEN
        IF a = 0 THEN [raised |-> "none", kind |-> "nan", num |-> 0, den |-> 1]
        ELSE [raised |-> "none", kind |-> "inf", num |-> 0, den |-> 1]
    ELSE [raised |-> "none", kind |-> "num", num |-> a, den |-> b]

(* The ',' option: groups of three digits. *)
Pad3(n) ==
    IF n < 10 THEN "00" \o ToString(n)
    ELSE IF n < 100 THEN "0" \o ToString(n)
    ELSE ToString(n)

RECURSIVE Commas(_)
Commas(n) ==
    IF n < 1000 THEN ToString(n)
    ELSE Commas(n \div 1000) \o "," \o Pad3(n % 1000)

Pad2(n) == IF n < 10 THEN "0" \o ToString(n) ELSE ToString(n)

(* num/den in hundredths, rounded half to even as the 'f' presentation
   type rounds. *)
Hundredths(num, den) ==
    LET n == 100 * num
        q == n \div den
        r == n % den
    IN  IF 2 * r > den THEN q + 1
        ELSE IF 2 * r = den THEN q + (q % 2)
        ELSE q

(* f'{x:,.2f}' *)
Format2fTruncated(x) ==
    IF x.kind = "nan" THEN "nan"
    ELSE IF x.kind = "inf" THEN "inf"
    ELSE LET h == (100 * x.num) \div x.den
         IN  Commas(h \div 100) \o "." \o Pad2(h % 100)

Format2f(x) ==
    IF x.kind = "nan" THEN "nan"
    ELSE IF x.kind = "inf" THEN "inf"
    ELSE LET h == Hundredths(x.num, x.den)
         IN  Commas(h \div 100) \o "." \o Pad2(h % 100)

(* f'{last_ra:,.0f}' of an amount *)
Format0f(v) == IF v = NaN THEN "nan" ELSE Commas(v)

(* ----- one pass of the metric loop body (lines 176-191) --------------- *)

NoMetric ==
    [label |-> "", value |-> "", delta |-> "", delta_color |-> "",
     first_ra |-> NaN, last_ra |-> NaN]

Raise(e) == [raised |-> e, metric |-> NoMetric]

Metric(first_year, last_year, county) ==
    LET first == Iat0(RowsOf(first_year, county))
        last == Iat0(RowsOf(last_year, county))
    IN  IF first.raised # "none" THEN Raise(first.raised)
        ELSE IF last.raised # "none" THEN Raise(last.raised)
        ELSE IF IsNan(first.val) THEN
            [raised |-> "none",
             metric |-> [label |-> county \o " RA",
                         value |-> Format0f(last.val) \o "B",
                         delta |-> "n/a", delta_color |-> "off",
                         first_ra |-> first.val, last_ra |-> last.val]]
        ELSE LET q == TrueDivide(last.val, first.val)
             IN  IF q.raised # "none" THEN Raise(q.raised)
                 ELSE [raised |-> "none",
                       metric |-> [label |-> county \o " RA",
                                   value |-> Format0f(last.val) \o "B",
                                   delta |-> Format2f(q) \o "x",
                                   delta_color |-> "normal",
                                   first_ra |-> first.val,
                                   last_ra |-> last.val]]

(* The for loop of line 172: the cards rendered before an exception stay on
   the page, the exception ends the run. *)
RECURSIVE MetricsLoop(_, _, _, _, _)
MetricsLoop(first_year, last_year, sel, i, acc) ==
    IF i > Len(sel) THEN [metrics |-> acc, error |-> "none"]
    ELSE LET m == Metric(first_year, last_year, sel[i])
         IN  IF m.raised # "none" THEN [metrics |-> acc, error |-> m.raised]
             ELSE MetricsLoop(first_year, last_year, sel, i + 1,
                              Append(acc, m.metric))

(* ----- one run of the script from the widgets on (lines 117-191) ------ *)

(* What a run renders, given the widget values. *)
Page(df, f, t, sel) ==
    LET loop == MetricsLoop(RowsOn(df, f), RowsOn(df, t), sel, 1, <<>>)
    IN  [warning |-> (Len(Unique(df)) = 0),
         filtered |-> Filter(df, sel, f, t),
         metrics |-> loop.metrics,
         error |-> loop.error]

(* The run stopped by st.slider at line 120: nothing below it is rendered. *)
SliderStopped ==
    [warning |-> FALSE, filtered |-> <<>>, metrics |-> <<>>,
     error |-> "SliderException"]

ScriptInPlace(f, t, sel) ==
    LET page == Page(ra_df, f, t, sel)
    IN  /\ ra_df' = page.filtered
        /\ from_date' = f
        /\ to_date' = t
        /\ selected_counties' = sel
        /\ warning' = page.warning
        /\ filtered_ra_df' = page.filtered
        /\ metrics' = page.metrics
        /\ error' = page.error
        /\ baseline' = baseline
        /\ interacted' = TRUE

ScriptAccumulating(f, t, sel) ==
    LET page == Page(ra_df, f, t, sel)
    IN  /\ ra_df' = ra_df
        /\ from_date' = f
        /\ to_date' = t
        /\ selected_counties' = sel
        /\ warning' = page.warning
        /\ filtered_ra_df' = page.filtered
        /\ metrics' = metrics \o page.metrics
        /\ error' = page.error
        /\ baseline' = baseline
        /\ interacted' = TRUE

(* ra_df is the value get_ra_data() returns on every run; nothing below
   line 101 assigns to it or to its columns. *)
Script(f, t, sel) ==
    LET page == Page(ra_df, f, t, sel)
    IN  /\ ra_df' = ra_df
        /\ from_date' = f
        /\ to_date' = t
        /\ selected_counties' = sel
        /\ warning' = page.warning
        /\ filtered_ra_df' = page.filtered
        /\ metrics' = page.metrics
        /\ error' = page.error
        /\ baseline' = baseline
        /\ interacted' = TRUE

(* The first run on a table drawn from T: the slider and the multiselect
   return their defaults, the full date range and every county.  On a table
   without any valid date the slider is handed NaT for its range; it either
   raises or returns (NaT, NaT). *)
InitOf(T) ==
    \E rows \in T :
        LET df == WithIndex(rows)
        IN  \E accepted \in BOOLEAN :
            LET ok == accepted \/ ValidDates(df) # {}
                sel == IF ok THEN Unique(df) ELSE <<>>
                page == IF ok THEN Page(df, DateMin(df), DateMax(df), sel)
                        ELSE SliderStopped
            IN  /\ (ValidDates(df) # {} => accepted)
                /\ ra_df = df
                /\ from_date = DateMin(df)
                /\ to_date = DateMax(df)
                /\ selected_counties = sel
                /\ warning = page.warning
                /\ filtered_ra_df = page.filtered
                /\ metrics = page.metrics
                /\ error = page.error
                /\ baseline = [filtered |-> page.filtered,
                               metrics |-> page.metrics,
                               error |-> page.error]
                /\ interacted = FALSE

Init == InitOf(Tables)

(* Tables that differ in county and date only: the filter does not read the
   Amount column. *)
FilterTables ==
    UNION {[1..n -> [county : CountyValues, date : DateValues, amount : {100}]] :
           n \in 0..MaxRows}

InitFilter == InitOf(FilterTables)

(* Tables without missing counties or dates: the lookups of the metric loop
   on missing, zero and positive amounts. *)
MetricTables ==
    UNION {[1..n -> [county : {"A", "B"}, date : 1..MaxDate, amount : {NaN, 0, 100}]] :
           n \in 0..MaxRows}

InitMetrics == InitOf(MetricTables)

WidgetsRendered == error # "SliderException"

(* The user drags a handle of the range slider. *)
MoveSlider ==
    /\ WidgetsRendered
    /\ ValidDates(ra_df) # {}
    /\ \E f \in DateMin(ra_df)..DateMax(ra_df), t \in DateMin(ra_df)..DateMax(ra_df) :
        /\ f <= t
        /\ <<f, t>> # <<from_date, to_date>>
        /\ Script(f, t, selected_counties)

(* The user picks one more county in the multiselect. *)
SelectCounty ==
    /\ WidgetsRendered
    /\ \E i \in 1..Len(Unique(ra_df)) :
        /\ \A k \in 1..Len(selected_counties) :
               selected_counties[k] # Unique(ra_df)[i]
        /\ Script(from_date, to_date,
                  Append(selected_counties, Unique(ra_df)[i]))

(* The user removes a county from the multiselect. *)
DeselectCounty ==
    /\ WidgetsRendered
    /\ \E i \in 1..Len(selected_counties) :
        Script(from_date, to_date,
               SelectSeq(selected_counties,
                         LAMBDA c : c # selected_counties[i]))

Next == MoveSlider \/ SelectCounty \/ DeselectCounty

Spec == Init /\ [][Next]_vars

SpecFilter == InitFilter /\ [][Next]_vars

SpecMetrics == InitMetrics /\ [][Next]_vars

(* ======================================================================= *)
(* Properties                                                              *)
(* ======================================================================= *)

SelectedSet == {selected_counties[i] : i \in 1..Len(selected_counties)}

InFiltered(r) == \E j \in 1..Len(filtered_ra_df) : filtered_ra_df[j] = r

(* The naive reference filter: county selected, date present and within
   the inclusive range. *)
ShouldBeKept(r) ==
    /\ r.county \in SelectedSet
    /\ r.date # NaT
    /\ from_date <= r.date
    /\ r.date <= to_date

(* The positions of the rows of the source table recorded for county c on
   date d, and the first of them. *)
Matches(c, d) ==
    {i \in 1..Len(ra_df) :
        c # NA /\ d # NaT /\ ra_df[i].county = c /\ ra_df[i].date = d}

FirstMatch(c, d) == CHOOSE i \in Matches(c, d) : \A j \in Matches(c, d) : i <= j

(* The first run and every later run were given a slider range. *)
ObservedRange == WidgetsRendered /\ \E i \in 1..Len(ra_df) : ra_df[i].date # NaT

(* C1: the filtered series holds exactly the records whose county is
   selected and whose date lies in the inclusive range [from_date, to_date]:
   each such record once, and no other record. *)
C1_FilterIsExact ==
    WidgetsRendered =>
        /\ from_date <= to_date
        /\ \A i \in 1..Len(ra_df) : InFiltered(ra_df[i]) <=> ShouldBeKept(ra_df[i])
        /\ \A j \in 1..Len(filtered_ra_df) :
               \E i \in 1..Len(ra_df) : ra_df[i] = filtered_ra_df[j]
        /\ Len(filtered_ra_df) =
               Cardinality({i \in 1..Len(ra_df) : ShouldBeKept(ra_df[i])})

(* A record dated exactly on the high bound is kept while a record of a
   selected county dated before the low bound is dropped. *)
C1_Witness ==
    /\ WidgetsRendered
    /\ \E i \in 1..Len(ra_df), j \in 1..Len(ra_df) :
        /\ ra_df[i].date = to_date
        /\ InFiltered(ra_df[i])
        /\ ra_df[j].county \in SelectedSet
        /\ ra_df[j].date # NaT
        /\ ra_df[j].date < from_date
        /\ ~InFiltered(ra_df[j])

(* C2 (as claimed): the metric loop never raises; a county without a record
   on the low or the high bound gets a card all the same, with growth "n/a"
   when the low side is missing, and every selected county gets its card. *)
C2_AggregationNeverRaises ==
    WidgetsRendered =>
        /\ error = "none"
        /\ Len(metrics) = Len(selected_counties)
        /\ \A i \in 1..Len(selected_counties) :
               Matches(selected_counties[i], from_date) = {} =>
                   (i <= Len(metrics) /\ metrics[i].delta = "n/a")

(* C3 (as claimed): every selected county has a card; its growth is "n/a"
   with delta colour 'off' exactly when the value on the low bound is
   missing or NaN, and otherwise it is the quotient with two decimals and
   an "x", with delta colour 'normal'. *)
C3_GrowthRatio ==
    WidgetsRendered =>
        \A i \in 1..Len(selected_counties) :
            LET c == selected_counties[i]
                lowMissing == Matches(c, from_date) = {}
                low == ra_df[FirstMatch(c, from_date)].amount
                high == IF Matches(c, to_date) = {} THEN NaN
                        ELSE ra_df[FirstMatch(c, to_date)].amount
            IN  /\ i <= Len(metrics)
                /\ IF lowMissing \/ low = NaN
                   THEN metrics[i].delta = "n/a" /\ metrics[i].delta_color = "off"
                   ELSE /\ metrics[i].delta = Format2f(TrueDivide(high, low)) \o "x"
                        /\ metrics[i].delta_color = "normal"

(* C4: with no county selected the filtered series is empty, no metric card
   is rendered and no exception is raised. *)
C4_EmptySelection ==
    (WidgetsRendered /\ selected_counties = <<>>) =>
        /\ filtered_ra_df = <<>>
        /\ metrics = <<>>
        /\ error = "none"

(* The user has deselected every county of a table that has rows inside the
   chosen range. *)
C4_Witness ==
    /\ interacted
    /\ selected_counties = <<>>
    /\ \E i \in 1..Len(ra_df) :
        ra_df[i].date # NaT /\ from_date <= ra_df[i].date /\ ra_df[i].date <= to_date
    /\ filtered_ra_df = <<>>
    /\ error = "none"

(* C5 (as claimed): whenever the selection is empty the page shows the
   warning "Select at least one county". *)
C5_WarningWhenSelectionEmpty ==
    (WidgetsRendered /\ selected_counties = <<>>) => warning

(* C6: a county whose value on the low bound is zero and whose value on the
   high bound is a number never stops the loop: once the loop reaches it,
   its card is rendered with the delta "infx" (positive high value) or
   "nanx" (zero high value), and no ZeroDivisionError is raised. *)
C6_ZeroDenominator ==
    /\ error # "ZeroDivisionError"
    /\ \A i \in 1..Len(selected_counties) :
        LET c == selected_counties[i]
        IN  (/\ i <= Len(metrics) + 1
             /\ Matches(c, from_date) # {}
             /\ Matches(c, to_date) # {}
             /\ ra_df[FirstMatch(c, from_date)].amount = 0
             /\ ra_df[FirstMatch(c, to_date)].amount # NaN)
            => /\ i <= Len(metrics)
               /\ metrics[i].delta_color = "normal"
               /\ metrics[i].delta =
                      IF ra_df[FirstMatch(c, to_date)].amount = 0
                      THEN "nanx" ELSE "infx"

(* A card was rendered for a county with amount 0 on the low bound and a
   positive amount on the high bound. *)
C6_Witness ==
    \E i \in 1..Len(metrics) :
        /\ metrics[i].first_ra = 0
        /\ metrics[i].last_ra > 0
        /\ metrics[i].delta = "infx"

(* C7 (as claimed): with the default widget values, the full observed date
   range and every county of the table, the filtered series equals the whole
   table as a set of records. *)
DefaultParameters ==
    /\ ObservedRange
    /\ \A i \in 1..Len(ra_df) :
        /\ ra_df[i].county \in SelectedSet
        /\ ra_df[i].date # NaT => (from_date <= ra_df[i].date /\ ra_df[i].date <= to_date)

C7_RoundTripWholeTable ==
    DefaultParameters =>
        {filtered_ra_df[j] : j \in 1..Len(filtered_ra_df)} =
            {ra_df[i] : i \in 1..Len(ra_df)}

(* C7 (amended): with the default widget values the filtered series equals,
   as a set of records, the records of the table that have a date; records
   with an empty county are kept, records with an empty date are dropped. *)
C7_RoundTripDatedRecords ==
    DefaultParameters =>
        {filtered_ra_df[j] : j \in 1..Len(filtered_ra_df)} =
            {ra_df[i] : i \in {k \in 1..Len(ra_df) : ra_df[k].date # NaT}}

(* The defaults on a table holding a dated record without county, which is
   kept, and a record without date, which is dropped. *)
C7_Witness ==
    /\ DefaultParameters
    /\ \E i \in 1..Len(ra_df), j \in 1..Len(ra_df) :
        /\ ra_df[i].county = NA
        /\ ra_df[i].date # NaT
        /\ InFiltered(ra_df[i])
        /\ ra_df[j].date = NaT
        /\ ~InFiltered(ra_df[j])

(* C8: no run of the script changes the source table. *)
C8_SourceNeverMutated == [][ra_df' = ra_df]_vars

(* After an interaction the filter has produced a proper part of the table
   and the loop has rendered a card from its lookups; the table is still
   the indexed table of the first run. *)
C8_Witness ==
    /\ interacted
    /\ Len(filtered_ra_df) > 0
    /\ Len(filtered_ra_df) < Len(ra_df)
    /\ Len(metrics) > 0
    /\ \A i \in 1..Len(ra_df) : ra_df[i].idx = i - 1

(* C9: a run given the widget values of the first run renders what the
   first run rendered, whatever runs came in between. *)
SameParametersAsFirstRun ==
    /\ ObservedRange
    /\ selected_counties = Unique(ra_df)
    /\ \A i \in 1..Len(ra_df) :
        ra_df[i].date # NaT => (from_date <= ra_df[i].date /\ ra_df[i].date <= to_date)
    /\ \E i \in 1..Len(ra_df) : ra_df[i].date = from_date
    /\ \E i \in 1..Len(ra_df) : ra_df[i].date = to_date

C9_Deterministic ==
    SameParametersAsFirstRun =>
        /\ filtered_ra_df = baseline.filtered
        /\ metrics = baseline.metrics
        /\ error = baseline.error

(* The user changed the widgets and set them back to the values of the
   first run, on a table for which the first run rendered rows and cards. *)
C9_Witness ==
    /\ interacted
    /\ SameParametersAsFirstRun
    /\ Len(baseline.filtered) > 0
    /\ Len(baseline.metrics) > 0
    /\ metrics = baseline.metrics

(* C10: the values of a rendered card are the amounts of the first record,
   in source row order, of the county on the low and on the high bound;
   when that first record on the low bound has no amount the growth is
   "n/a", whatever later records of the same county and date hold. *)
C10_FirstMatch ==
    \A i \in 1..Len(metrics) :
        LET c == selected_counties[i]
        IN  /\ Matches(c, from_date) # {}
            /\ Matches(c, to_date) # {}
            /\ metrics[i].first_ra = ra_df[FirstMatch(c, from_date)].amount
            /\ metrics[i].last_ra = ra_df[FirstMatch(c, to_date)].amount
            /\ metrics[i].value = Format0f(ra_df[FirstMatch(c, to_date)].amount) \o "B"
            /\ (ra_df[FirstMatch(c, from_date)].amount = NaN
                    => metrics[i].delta = "n/a")

(* A card with growth "n/a" for a county whose first record on the low
   bound has no amount and whose later record on the same date has one. *)
C10_Witness ==
    \E i \in 1..Len(metrics) :
        \E j \in 1..Len(ra_df), k \in 1..Len(ra_df) :
            /\ j < k
            /\ ra_df[j].county = selected_counties[i]
            /\ ra_df[k].county = selected_counties[i]
            /\ ra_df[j].date = from_date
            /\ ra_df[k].date = from_date
            /\ ra_df[j].amount = NaN
            /\ ra_df[k].amount # NaN
            /\ metrics[i].delta = "n/a"

====
